---- MODULE Spec2Model ----
(***************************************************************************)
(* A model of pa3.c: the frame allocator, the two-level page table, the    *)
(* copy-on-write fault handler and the process switcher/forker.            *)
(*                                                                         *)
(* A process is named by the order of its creation (1 is the initial       *)
(* process); its pid is a field, so two processes may carry the same pid.  *)
(* A page table is outer_ptes: one slot per directory index, each slot a   *)
(* record [ptr, ptes] where ptr is "NULL", "DIR" (a malloc'ed directory)   *)
(* or "WILD" (a pointer never initialised that is not NULL).               *)
(*                                                                         *)
(* mapcounts[] is unsigned int in the code; a counter is kept here as the  *)
(* signed residue of its value modulo 2^32, so -1 stands for 0xFFFFFFFF.   *)
(* The tests the code makes on a counter (non-zero, == 1) and ++/-- are    *)
(* exact on residues.                                                      *)
(*                                                                         *)
(* malloc() does not initialise what it returns and the code reads most of *)
(* it before it writes it.  heap is the content of such memory in one run: *)
(* all zero bytes ("zero") or a non-zero pattern ("junk").                 *)
(***************************************************************************)
EXTENDS Integers, Sequences, FiniteSets, TLC

\* ---------------------------------------------------------------- bounds
NR_PAGEFRAMES == 3
NR_PTES_PER_PAGE == 2
MaxPid == 1
MaxSteps == 5

\* ------------------------------------------------------------- constants
RW_READ == 1
RW_WRITE == 2
RW_READWRITE == 3
NoFrame == -1

Frames == 0 .. (NR_PAGEFRAMES - 1)
Idx == 0 .. (NR_PTES_PER_PAGE - 1)
VPNs == 0 .. (NR_PTES_PER_PAGE * NR_PTES_PER_PAGE - 1)
Pids == 0 .. MaxPid

VARIABLES procs, mapcounts, current, ptbr, processes, crashed, heap,
          last, allocated, steps, readonly, shared, notraw

vars == <<procs, mapcounts, current, ptbr, processes, crashed, heap,
          last, allocated, steps, readonly, shared, notraw>>

\* ------------------------------------------------------------ page table
ZeroPTE == [valid |-> FALSE, writable |-> FALSE, pfn |-> 0, private |-> 0]

\* What malloc() hands out: zeroed memory, memory whose bytes happen to make
\* a PTE with a frame number in range, or memory filled with one byte
\* pattern (MALLOC_PERTURB_), whose frame number is far out of range.
Fills == {"zero", "junk", "perturb"}

\* A PTE of junk memory: every field non-zero, the pfn within the frames.
JunkPTE == [valid |-> TRUE, writable |-> TRUE, pfn |-> NR_PAGEFRAMES - 1, private |-> 1]

\* The 32-bit word of memory filled with the byte 0xAA: 0xAAAAAAAA, that is
\* 2863311530 as an unsigned int, kept as its signed residue like the counters.
PerturbWord == -1431655766

\* A PTE of memory filled with the byte 0xAA: the two bools are non-zero,
\* pfn and private are 0xAAAAAAAA.
PerturbPTE ==
  [valid |-> TRUE, writable |-> TRUE, pfn |-> PerturbWord, private |-> PerturbWord]

\* How the build reads a bool whose byte is neither 0 nor 1.  `if (b)` is
\* true for it in every build; `!b` is false where the byte is tested
\* against 0 and true where it is computed as (byte xor 1) != 0: notraw is
\* the value of `!b`, one per build.
NotRaws(fill) == IF fill = "perturb" THEN BOOLEAN ELSE {FALSE}

\* `!pte->valid` (line 211).
NotValid(pte) == IF pte = PerturbPTE THEN notraw ELSE ~pte.valid

\* `!pte->writable` (line 142).
NotWritable(pte) == IF pte = PerturbPTE THEN notraw ELSE ~pte.writable

\* A PTE of memory malloc() returned that nobody wrote.
UninitPTE(fill) ==
  CASE fill = "zero" -> ZeroPTE
    [] fill = "junk" -> JunkPTE
    [] OTHER -> PerturbPTE

\* An outer_ptes[] slot of a malloc'ed struct process that nobody wrote.
UninitPtr(fill) == IF fill = "zero" THEN "NULL" ELSE "WILD"

NoPtes == [j \in Idx |-> ZeroPTE]

NullDir == [ptr |-> "NULL", ptes |-> NoPtes]

EmptyPagetable == [i \in Idx |-> NullDir]

\* malloc(sizeof(struct pte_directory))
NewDir(fill) == [ptr |-> "DIR", ptes |-> [j \in Idx |-> UninitPTE(fill)]]

pd_index(vpn) == vpn \div NR_PTES_PER_PAGE

pte_index(vpn) == vpn % NR_PTES_PER_PAGE

Dir(p, vpn) == procs[p].outer_ptes[pd_index(vpn)]

Pte(p, vpn) == Dir(p, vpn).ptes[pte_index(vpn)]

\* Write one PTE of process p.
SetPte(ps, p, vpn, pte) ==
  [ps EXCEPT ![p].outer_ptes[pd_index(vpn)].ptes[pte_index(vpn)] = pte]

\* ------------------------------------------------------- frame allocator
\* A scan that takes the last free frame instead of the first.
ScanFrom_Last(mc, num) ==
  LET free == {f \in Frames : mc[f] = 0}
  IN IF free = {} THEN NR_PAGEFRAMES ELSE CHOOSE f \in free : \A g \in free : g <= f

\* A scan that falls back to frame 0 when no frame is free.
ScanFrom_Wrap(mc, num) ==
  LET free == {f \in Frames : mc[f] = 0}
  IN IF free = {} THEN 0 ELSE CHOOSE f \in free : \A g \in free : f <= g

\* A scan that stops one frame early and takes the last frame unseen.
ScanFrom_ShortScan(mc, num) ==
  LET free == {f \in Frames : mc[f] = 0 /\ f < NR_PAGEFRAMES - 1}
  IN IF free = {} THEN NR_PAGEFRAMES - 1 ELSE CHOOSE f \in free : \A g \in free : f <= g

\* The scan `while (num < NR_PAGEFRAMES && mapcounts[num]) num++`.
RECURSIVE ScanFrom(_, _)
ScanFrom(mc, num) ==
  IF num < NR_PAGEFRAMES /\ mc[num] # 0 THEN ScanFrom(mc, num + 1) ELSE num

\* ----------------------------------------------------------- the last call
\* op and its arguments; ret is alloc_page's return value; ok is
\* handle_page_fault's return value, and for switch_process whether the pid
\* was found in the list; from and ready are the current process and the
\* entries of the list when the call was made; back says that the call is a
\* switch to a pid found in the list, made right after such a switch, to the
\* pid of the process that made that one.
Ready == {processes[k] : k \in 1 .. Len(processes)}

Call(op, arg, rw, ret, ok) ==
  [op |-> op, arg |-> arg, rw |-> rw, ret |-> ret, ok |-> ok,
   from |-> current, ready |-> Ready,
   back |-> (op = "switch" /\ ok /\ last.op = "switch" /\ last.ok
             /\ arg = procs[last.from].pid)]

\* A wild or null pointer is dereferenced: the program is gone.
Crash(op, arg, rw) ==
  /\ crashed' = TRUE
  /\ last' = Call(op, arg, rw, 0, FALSE)
  /\ UNCHANGED <<procs, mapcounts, current, ptbr, processes, allocated>>

\* The same after the call has written ps and mc: what was stored before the
\* faulting access stays stored.
CrashAfter(op, arg, rw, ps, mc) ==
  /\ crashed' = TRUE
  /\ last' = Call(op, arg, rw, 0, FALSE)
  /\ procs' = ps
  /\ mapcounts' = mc
  /\ UNCHANGED <<current, ptbr, processes, allocated>>

\* mapcounts[pfn] is inside the array.
InFrames(pfn) == pfn \in Frames

\* -------------------------------------------------------------- alloc_page
AllocPte(rw, num) ==
  [valid |-> TRUE, writable |-> (rw = RW_READWRITE), pfn |-> num, private |-> 0]

alloc_page(vpn, rw) ==
  /\ ~crashed
  /\ LET slot == Dir(ptbr, vpn)
         num == ScanFrom(mapcounts, 0)
         pd == IF slot.ptr = "NULL" THEN NewDir(heap) ELSE slot
         ps == [procs EXCEPT ![ptbr].outer_ptes[pd_index(vpn)] = pd]
     IN IF num = NR_PAGEFRAMES
        THEN /\ procs' = ps
             /\ last' = Call("alloc", vpn, rw, NoFrame, FALSE)
             /\ UNCHANGED <<mapcounts, current, ptbr, processes, crashed, allocated>>
        ELSE IF pd.ptr = "WILD"
        THEN CrashAfter("alloc", vpn, rw, ps, [mapcounts EXCEPT ![num] = @ + 1])
        ELSE /\ mapcounts' = [mapcounts EXCEPT ![num] = @ + 1]
             /\ procs' = SetPte(ps, ptbr, vpn, AllocPte(rw, num))
             /\ last' = Call("alloc", vpn, rw, num, TRUE)
             /\ allocated' = allocated \cup {num}
             /\ UNCHANGED <<current, ptbr, processes, crashed>>

\* --------------------------------------------------------------- free_page
FreePte(pte) == [pte EXCEPT !.valid = FALSE, !.writable = FALSE, !.pfn = 0]

\* A release that also clears the entry of every process sharing the frame.
FreeEntry_AllSharers(ps, p, vpn) ==
  LET at(q) == ps[q].outer_ptes[pd_index(vpn)].ptes[pte_index(vpn)]
  IN [q \in DOMAIN ps |->
        IF q = p \/ (at(q).valid /\ at(q).pfn = at(p).pfn)
          THEN SetPte(ps, q, vpn, FreePte(at(q)))[q]
          ELSE ps[q]]

\* The one entry free_page writes: page vpn of the table ptbr points at.
FreeEntry(ps, p, vpn) ==
  SetPte(ps, p, vpn, FreePte(ps[p].outer_ptes[pd_index(vpn)].ptes[pte_index(vpn)]))

\* free_page tests nothing: it reads the entry through whatever the slot
\* holds and decrements the count of whatever frame number the entry holds.
free_page(vpn) ==
  /\ ~crashed
  /\ IF Dir(ptbr, vpn).ptr # "DIR" \/ ~InFrames(Pte(ptbr, vpn).pfn)
     THEN Crash("free", vpn, 0)
     ELSE /\ mapcounts' = [mapcounts EXCEPT ![Pte(ptbr, vpn).pfn] = @ - 1]
          /\ procs' = FreeEntry(procs, ptbr, vpn)
          /\ last' = Call("free", vpn, 0, 0, TRUE)
          /\ allocated' = {}
          /\ UNCHANGED <<current, ptbr, processes, crashed>>

\* ------------------------------------------------------- handle_page_fault
\* A test that takes every write-protected page for a copy-on-write page.
IsCow_IgnoresPrivate(pte) == ~pte.writable

IsCow(pte) == NotWritable(pte) /\ pte.private # 0

\* A promotion that forgets to clear the private mark.
Promote_KeepsPrivate(pte) == [pte EXCEPT !.writable = TRUE]

Promote(pte) == [pte EXCEPT !.writable = TRUE, !.private = 0]

\* A copy that forgets to give up the shared frame.
CowCounts_NoDecrement(mc, pfn, num) == [mc EXCEPT ![num] = @ + 1]

CowCounts(mc, pfn, num) == [[mc EXCEPT ![pfn] = @ - 1] EXCEPT ![num] = @ + 1]

\* A copy that makes the page writable where it is, on the shared frame.
CowPte_KeepFrame(pte, num) == [pte EXCEPT !.writable = TRUE, !.private = 0]

CowPte(pte, num) == [pte EXCEPT !.pfn = num, !.writable = TRUE, !.private = 0]

handle_page_fault(vpn, rw) ==
  /\ ~crashed
  /\ IF rw = RW_READ
     THEN /\ last' = Call("fault", vpn, rw, 0, FALSE)
          /\ UNCHANGED <<procs, mapcounts, current, ptbr, processes, crashed, allocated>>
     ELSE IF Dir(ptbr, vpn).ptr # "DIR"
     THEN Crash("fault", vpn, rw)
     ELSE LET pte == Pte(ptbr, vpn)
              num == ScanFrom(mapcounts, 0)
          IN IF IsCow(pte)
             THEN IF ~InFrames(pte.pfn)
                  THEN Crash("fault", vpn, rw)
                  ELSE IF mapcounts[pte.pfn] = 1
                  THEN /\ procs' = SetPte(procs, ptbr, vpn, Promote(pte))
                       /\ last' = Call("fault", vpn, rw, 0, TRUE)
                       /\ UNCHANGED <<mapcounts, current, ptbr, processes, crashed, allocated>>
                  ELSE IF num = NR_PAGEFRAMES
                  THEN /\ last' = Call("fault", vpn, rw, 0, FALSE)
                       /\ UNCHANGED <<procs, mapcounts, current, ptbr, processes,
                                      crashed, allocated>>
                  ELSE /\ mapcounts' = CowCounts(mapcounts, pte.pfn, num)
                       /\ procs' = SetPte(procs, ptbr, vpn, CowPte(pte, num))
                       /\ last' = Call("fault", vpn, rw, 0, TRUE)
                       /\ UNCHANGED <<current, ptbr, processes, crashed, allocated>>
             ELSE /\ last' = Call("fault", vpn, rw, 0, FALSE)
                  /\ UNCHANGED <<procs, mapcounts, current, ptbr, processes,
                                 crashed, allocated>>

\* ---------------------------------------------------------- switch_process
\* list_for_each_entry_safe from the head: the first entry with the pid, or 0.
RECURSIVE FindFrom(_, _, _, _)
FindFrom(ps, list, pid, k) ==
  IF k > Len(list) THEN 0
  ELSE IF ps[list[k]].pid = pid THEN k
  ELSE FindFrom(ps, list, pid, k + 1)

\* list_add puts the entry at the head.
ListAdd(list, p) == <<p>> \o list

\* list_del of the k-th entry.
ListDel(list, k) == SubSeq(list, 1, k - 1) \o SubSeq(list, k + 1, Len(list))

\* A switch that forgets list_del.
SwitchTo_NoUnlink(list, cur, k) ==
  [processes |-> ListAdd(list, cur), current |-> list[k], ptbr |-> list[k]]

\* A switch that leaves ptbr on the page table of the process switched out.
SwitchTo_StalePtbr(list, cur, k) ==
  [processes |-> ListDel(ListAdd(list, cur), k + 1), current |-> list[k], ptbr |-> cur]

\* A switch that queues the current process at the tail (list_add_tail).
SwitchTo_AddTail(list, cur, k) ==
  [processes |-> ListDel(list \o <<cur>>, k), current |-> list[k], ptbr |-> list[k]]

\* The branch taken when the k-th entry of the list has the pid: the current
\* process goes to the head of the list, the entry found becomes current, is
\* unlinked (it is now one place further down), and ptbr follows.
SwitchTo(list, cur, k) ==
  [processes |-> ListDel(ListAdd(list, cur), k + 1),
   current |-> list[k],
   ptbr |-> list[k]]

\* What the fork loop does to a valid PTE of the parent.
ForkParentPte(pte) ==
  IF pte.writable THEN [pte EXCEPT !.writable = FALSE, !.private = 1] ELSE pte

\* The child's copy of the parent's PTE (already demoted).
ForkChildPte(pte) ==
  [valid |-> TRUE, writable |-> pte.writable, pfn |-> pte.pfn, private |-> pte.private]

\* The fork loops over the parent's page table, entry by entry in the order
\* of the code.  st = [mc, parent, child, crashed]; the child's table starts
\* as the memory malloc() returned.  The loop ends where it reads an entry
\* through a wild slot, or counts a frame number outside mapcounts[].
RECURSIVE ForkFrom(_, _)
ForkFrom(st, k) ==
  IF k = NR_PTES_PER_PAGE * NR_PTES_PER_PAGE THEN st
  ELSE LET i == k \div NR_PTES_PER_PAGE
           j == k % NR_PTES_PER_PAGE
           pte == st.parent[i].ptes[j]
       IN IF st.parent[i].ptr = "NULL" THEN ForkFrom(st, k + 1)
          ELSE IF st.parent[i].ptr = "WILD" THEN [st EXCEPT !.crashed = TRUE]
          ELSE IF NotValid(pte) THEN ForkFrom(st, k + 1)
          ELSE IF ~InFrames(pte.pfn) THEN [st EXCEPT !.crashed = TRUE]
          ELSE ForkFrom([mc |-> [st.mc EXCEPT ![pte.pfn] = @ + 1],
                         parent |-> [st.parent EXCEPT ![i].ptes[j] = ForkParentPte(pte)],
                         child |-> [st.child EXCEPT ![i].ptes[j] =
                                      ForkChildPte(ForkParentPte(pte))],
                         crashed |-> FALSE],
                        k + 1)

\* The page table of malloc(sizeof(struct process)) with a malloc'ed
\* directory wherever the parent has one.
ChildTable(parent, fill) ==
  [i \in Idx |-> IF parent[i].ptr = "NULL"
                 THEN [ptr |-> UninitPtr(fill), ptes |-> NoPtes]
                 ELSE NewDir(fill)]

switch_process(pid) ==
  /\ ~crashed
  /\ LET k == FindFrom(procs, processes, pid, 1)
     IN IF k # 0
        THEN LET to == SwitchTo(processes, current, k)
             IN /\ processes' = to.processes
                /\ current' = to.current
                /\ ptbr' = to.ptbr
                /\ last' = Call("switch", pid, 0, 0, TRUE)
                /\ UNCHANGED <<procs, mapcounts, crashed, allocated>>
        ELSE LET parent == procs[ptbr].outer_ptes
                 st == ForkFrom([mc |-> mapcounts, parent |-> parent,
                                 child |-> ChildTable(parent, heap),
                                 crashed |-> FALSE], 0)
                 temp == Len(procs) + 1
             IN IF st.crashed
                THEN CrashAfter("switch", pid, 0,
                                [procs EXCEPT ![ptbr].outer_ptes = st.parent], st.mc)
                ELSE /\ mapcounts' = st.mc
                     /\ procs' = Append([procs EXCEPT ![ptbr].outer_ptes = st.parent],
                                        [pid |-> pid, outer_ptes |-> st.child])
                     /\ processes' = ListAdd(processes, current)
                     /\ current' = temp
                     /\ ptbr' = temp
                     /\ last' = Call("switch", pid, 0, 0, FALSE)
                     /\ UNCHANGED <<crashed, allocated>>

\* ------------------------------------------------------------- the system
Init ==
  /\ procs = <<[pid |-> 0, outer_ptes |-> EmptyPagetable]>>
  /\ mapcounts = [f \in Frames |-> 0]
  /\ current = 1
  /\ ptbr = 1
  /\ processes = <<>>
  /\ crashed = FALSE
  /\ heap \in Fills
  /\ last = [op |-> "init", arg |-> 0, rw |-> 0, ret |-> 0, ok |-> TRUE,
             from |-> 1, ready |-> {}, back |-> FALSE]
  /\ allocated = {}
  /\ steps = 0
  /\ readonly = {}
  /\ shared = {}
  /\ notraw \in NotRaws(heap)

\* History: the pages <<process, vpn>> whose present mapping was made by
\* alloc_page with a mode other than read-write, or copied from such a
\* mapping by a fork.  alloc_page replaces the entry of its page, free_page
\* ends it, a fork gives the child the parent's pages.
ReadOnlyAfter(call, nprocs) ==
  LET page == <<call.from, call.arg>>
  IN CASE call.op = "alloc" /\ call.ret # NoFrame ->
            IF call.rw = RW_READWRITE THEN readonly \ {page}
                                      ELSE readonly \cup {page}
       [] call.op = "free" -> readonly \ {page}
       [] call.op = "switch" /\ nprocs > Len(procs) ->
            readonly \cup {<<nprocs, pv[2]>> : pv \in {x \in readonly : x[1] = call.from}}
       [] OTHER -> readonly

\* History: the pages a fork has just shared between exactly two processes,
\* and how far the two have come with their write faults on it.  A record
\* is made by the fork for every page that was valid and writable in the
\* parent and whose frame then has count 2 and these two mappings only;
\* phase counts the write faults taken on the page by the two (first is who
\* took the first).  A switch to an existing process keeps the records, a
\* read fault too; every other call in between ends them, as does a first
\* fault that finds no frame.
SharedByFork(call, ps, mc) ==
  {[a |-> call.from, b |-> Len(ps), vpn |-> v, pfn |-> Pte(call.from, v).pfn,
    phase |-> 0, first |-> 0] :
     v \in {w \in VPNs :
              /\ Dir(call.from, w).ptr = "DIR"
              /\ Pte(call.from, w).valid
              /\ Pte(call.from, w).writable
              /\ InFrames(Pte(call.from, w).pfn)
              /\ mc[Pte(call.from, w).pfn] = 2
              /\ \A q \in DOMAIN ps, u \in VPNs :
                    (ps[q].outer_ptes[pd_index(u)].ptr = "DIR"
                     /\ ps[q].outer_ptes[pd_index(u)].ptes[pte_index(u)].valid
                     /\ ps[q].outer_ptes[pd_index(u)].ptes[pte_index(u)].pfn
                           = Pte(call.from, w).pfn)
                    => (u = w /\ q \in {call.from, Len(ps)})}}

SharedAfterFault(call) ==
  {[r EXCEPT !.phase = IF call.from = r.first THEN @ ELSE @ + 1,
             !.first = IF r.phase = 0 THEN call.from ELSE @] :
     r \in {x \in shared :
              /\ x.vpn = call.arg
              /\ call.from \in {x.a, x.b}
              /\ x.phase < 2
              /\ (x.phase = 0 => call.ok)}}

SharedAfter(call, ps, mc) ==
  CASE call.op = "switch" /\ call.ok -> shared
    [] call.op = "switch" /\ ~call.ok -> SharedByFork(call, ps, mc)
    [] call.op = "fault" /\ call.rw = RW_READ -> shared
    [] call.op = "fault" /\ call.rw # RW_READ -> SharedAfterFault(call)
    [] OTHER -> {}

\* One command of the driver: the calls are made one at a time.
Step(A) ==
  /\ steps < MaxSteps /\ steps' = steps + 1 /\ heap' = heap /\ notraw' = notraw /\ A
  /\ readonly' = IF crashed' THEN readonly ELSE ReadOnlyAfter(last', Len(procs'))
  /\ shared' = IF crashed' THEN {} ELSE SharedAfter(last', procs', mapcounts')

\* The pages the driver names: two pages of directory 0 and the first page of
\* directory 1.  A read fault returns before it looks at its page, so one page
\* stands for all of them.
TestVPNs == {0, 1, NR_PTES_PER_PAGE} \cap VPNs

FaultInputs == (TestVPNs \X {RW_WRITE}) \cup {<<0, RW_READ>>}

\* The driver frees only pages that are valid in the current page table.
CanFree(vpn) == Dir(ptbr, vpn).ptr = "DIR" /\ Pte(ptbr, vpn).valid

Next ==
  \/ \E vpn \in TestVPNs, rw \in {RW_READ, RW_READWRITE} : Step(alloc_page(vpn, rw))
  \/ \E vpn \in TestVPNs : CanFree(vpn) /\ Step(free_page(vpn))
  \/ \E in \in FaultInputs : Step(handle_page_fault(in[1], in[2]))
  \/ \E pid \in Pids : Step(switch_process(pid))

Spec == Init /\ [][Next]_vars

\* =================================================================== claims
Procs == 1 .. Len(procs)

\* The processes of the system: the current one and those of the ready list.
Live == {current} \cup Ready

HasPte(p, vpn) == Dir(p, vpn).ptr = "DIR"

IsValid(p, vpn) == HasPte(p, vpn) /\ Pte(p, vpn).valid

\* The valid PTEs of the live processes that map frame f.
Mappers(f) == {x \in Live \X VPNs : IsValid(x[1], x[2]) /\ Pte(x[1], x[2]).pfn = f}

\* An unsigned counter, kept as a residue, is at least 2.
AtLeast2(c) == c >= 2 \/ c < 0

FreeFrames == {f \in Frames : mapcounts[f] = 0}

\* The smallest frame whose reference count is 0 (there is one).
LowestFree == CHOOSE f \in FreeFrames : \A g \in FreeFrames : f <= g

\* The step is a call of handle_page_fault(vpn, RW_WRITE) that came back.
WriteFault(vpn) ==
  last'.op = "fault" /\ last'.arg = vpn /\ last'.rw = RW_WRITE /\ ~crashed'

\* C1: after every operation, for every frame F, mapcounts[F] is the number
\* of valid PTEs of the current process and of the processes of the ready set
\* whose frame is F.  Stated for the runs where malloc() returns zeroed
\* memory: the claim fails there too.
C1_RefCountConservation ==
  (heap = "zero" /\ ~crashed) =>
    \A f \in Frames : mapcounts[f] = Cardinality(Mappers(f))

\* C2: a successful alloc_page returns the smallest frame whose reference
\* count is 0 when it is called, and a frame that no successful alloc_page
\* has returned since the last free_page.
C2_LowestFreeFrame ==
  [][(last'.op = "alloc" /\ ~crashed' /\ last'.ret # NoFrame) =>
       /\ FreeFrames # {}
       /\ last'.ret = LowestFree
       /\ last'.ret \notin allocated
       /\ mapcounts'[last'.ret] = 1]_vars

\* C2 happens: alloc_page fills the gap a free_page left below a frame still
\* in use.
C2_Witness ==
  /\ last.op = "alloc" /\ ~crashed /\ last.ret = 0
  /\ \E g \in Frames : g > 0 /\ mapcounts[g] # 0

\* C3: a write fault of the current process on a valid, non-writable, private
\* PTE whose frame has reference count >= 2, when a frame is free, succeeds;
\* the old frame's count drops by exactly 1, the PTE moves to the lowest free
\* frame, whose count becomes 1, and becomes writable and non-private; the
\* page tables of all other processes stay as they were.
C3_CowSharedDuplication ==
  [][\A vpn \in VPNs :
       (/\ WriteFault(vpn)
        /\ IsValid(current, vpn)
        /\ ~Pte(current, vpn).writable
        /\ Pte(current, vpn).private # 0
        /\ AtLeast2(mapcounts[Pte(current, vpn).pfn])
        /\ FreeFrames # {})
       => LET old == Pte(current, vpn)
              new == procs'[current].outer_ptes[pd_index(vpn)].ptes[pte_index(vpn)]
          IN /\ last'.ok
             /\ mapcounts'[old.pfn] = mapcounts[old.pfn] - 1
             /\ new.pfn = LowestFree
             /\ mapcounts'[new.pfn] = 1
             /\ new.valid /\ new.writable /\ new.private = 0
             /\ \A p \in Procs : p # current => procs'[p] = procs[p]]_vars

\* C3 happens: the faulting process now maps a frame of its own, writable,
\* and another process still maps the same page privately on another frame.
C3_Witness ==
  /\ last.op = "fault" /\ last.ok /\ heap = "zero"
  /\ IsValid(current, last.arg)
  /\ Pte(current, last.arg).writable
  /\ mapcounts[Pte(current, last.arg).pfn] = 1
  /\ \E p \in Live \ {current} :
       /\ IsValid(p, last.arg)
       /\ ~Pte(p, last.arg).writable
       /\ Pte(p, last.arg).private = 1
       /\ Pte(p, last.arg).pfn # Pte(current, last.arg).pfn

\* C4: a write fault of the current process on a valid, non-writable, private
\* PTE whose frame has reference count 1 succeeds; the PTE becomes writable
\* and non-private on the same frame and no reference count changes.
C4_CowSoleOwnerPromotion ==
  [][\A vpn \in VPNs :
       (/\ WriteFault(vpn)
        /\ IsValid(current, vpn)
        /\ ~Pte(current, vpn).writable
        /\ Pte(current, vpn).private # 0
        /\ mapcounts[Pte(current, vpn).pfn] = 1)
       => LET old == Pte(current, vpn)
              new == procs'[current].outer_ptes[pd_index(vpn)].ptes[pte_index(vpn)]
          IN /\ last'.ok
             /\ new = [valid |-> TRUE, writable |-> TRUE, pfn |-> old.pfn, private |-> 0]
             /\ mapcounts' = mapcounts]_vars

\* C4 happens: a write fault succeeded on a valid page and one frame only is
\* in use, so no frame was taken for it.
C4_Witness ==
  /\ last.op = "fault" /\ last.ok /\ heap = "zero"
  /\ Len(procs) >= 2
  /\ IsValid(current, last.arg)
  /\ Pte(current, last.arg).writable
  /\ Cardinality({f \in Frames : mapcounts[f] # 0}) = 1

\* The same questions asked of a process table ps (procs or procs').
PteIn(ps, p, vpn) == ps[p].outer_ptes[pd_index(vpn)].ptes[pte_index(vpn)]

ValidIn(ps, p, vpn) ==
  ps[p].outer_ptes[pd_index(vpn)].ptr = "DIR" /\ PteIn(ps, p, vpn).valid

\* The step is a switch_process that took the fork branch and came back.
ForkStep == last'.op = "switch" /\ ~last'.ok /\ ~crashed'

\* The step is a switch_process that found its pid in the list.
FoundStep == last'.op = "switch" /\ last'.ok /\ ~crashed'

\* C5: when switch_process forks B from the current process A, B has a valid
\* PTE exactly at the pages where A had one, on the same frames; a page that
\* was writable in A is non-writable and private in both afterwards; and the
\* reference count of a frame grows by the number of A's valid PTEs on it.
C5_ForkSymmetry ==
  [][ForkStep =>
       /\ \A vpn \in VPNs : ValidIn(procs', current', vpn) <=> IsValid(current, vpn)
       /\ \A vpn \in VPNs : IsValid(current, vpn) =>
            /\ PteIn(procs', current', vpn).pfn = Pte(current, vpn).pfn
            /\ PteIn(procs', current, vpn).pfn = Pte(current, vpn).pfn
            /\ Pte(current, vpn).writable =>
                 /\ ~PteIn(procs', current, vpn).writable
                 /\ PteIn(procs', current, vpn).private # 0
                 /\ ~PteIn(procs', current', vpn).writable
                 /\ PteIn(procs', current', vpn).private # 0
       /\ \A f \in Frames :
            mapcounts'[f] = mapcounts[f]
               + Cardinality({vpn \in VPNs : IsValid(current, vpn)
                                             /\ Pte(current, vpn).pfn = f})]_vars

\* C6: a write fault of the current process on a PTE that is writable, or
\* invalid, or not private returns failure and changes no PTE and no
\* reference count.  Stated for the runs where malloc() returns zeroed
\* memory: the claim fails there too.
C6_UnrecoverableFaultNoEffect ==
  [][\A vpn \in VPNs :
       (/\ heap = "zero"
        /\ WriteFault(vpn)
        /\ HasPte(current, vpn)
        /\ \/ Pte(current, vpn).writable
           \/ ~Pte(current, vpn).valid
           \/ Pte(current, vpn).private = 0)
       => ~last'.ok /\ procs' = procs /\ mapcounts' = mapcounts]_vars

\* C7: every PTE with valid = false has writable = false, frame = 0 and
\* private = false.  Stated for the runs where malloc() returns zeroed
\* memory: the claim fails there too.
C7_InvalidEntriesHoldDefaults ==
  heap = "zero" =>
    \A p \in Procs, vpn \in VPNs :
      (HasPte(p, vpn) /\ ~Pte(p, vpn).valid) => Pte(p, vpn) = ZeroPTE

\* How many entries of the ready list are process p.
TimesReady(p) == Cardinality({k \in 1 .. Len(processes) : processes[k] = p})

\* C8: every process ever created is either the current process and not in
\* the ready list, or not current and exactly once in the ready list.
C8_ProcessPlacement ==
  \A p \in Procs :
    \/ p = current /\ TimesReady(p) = 0
    \/ p # current /\ TimesReady(p) = 1

\* C8 happens: three processes exist and the last call switched to one that
\* was in the ready list.
C8_Witness ==
  last.op = "switch" /\ last.ok /\ Len(procs) = 3 /\ Len(processes) = 2

\* C9: ptbr is the page table of the current process after every call, and
\* alloc_page, free_page and handle_page_fault leave the page table of every
\* other process as it was.
C9_PtbrFollowsCurrent ==
  [][/\ ptbr' = current'
     /\ last'.op \in {"alloc", "free", "fault"} =>
          \A p \in Procs : p # current => procs'[p] = procs[p]]_vars

\* C9 happens: after a switch to a process of the ready list, a call changed
\* the page table of that process.
C9_Witness ==
  /\ last.op \in {"alloc", "free", "fault"} /\ last.ok /\ ~crashed
  /\ Len(procs) >= 2 /\ current = 1 /\ ptbr = 1
  /\ \E vpn \in VPNs : IsValid(1, vpn) /\ Pte(1, vpn).writable

\* C10: a switch to a pid found in the ready list changes no PTE and no
\* reference count; and when it follows such a switch made by process A and
\* names A's pid, A is current again and the ready list holds the processes it
\* held before the first of the two.
C10_SwitchRoundTrip ==
  [][FoundStep =>
       /\ procs' = procs
       /\ mapcounts' = mapcounts
       /\ (last.op = "switch" /\ last.ok /\ last'.arg = procs[last.from].pid) =>
            /\ current' = last.from
            /\ Ready' = last.ready]_vars

\* C10 happens: A switched to B and back while other processes with pages
\* mapped waited in the ready list.
C10_Witness ==
  /\ last.back /\ ~crashed
  /\ Len(procs) = 3
  /\ \E vpn \in VPNs : IsValid(current, vpn)

\* C11: when every frame has a non-zero reference count, alloc_page returns
\* -1 and leaves every reference count and every PTE of every process as it
\* was (the call may still create the directory of its page: a PTE is an
\* entry of a directory that exists).
C11_AllocExhaustion ==
  [][(last'.op = "alloc" /\ FreeFrames = {}) =>
       /\ ~crashed'
       /\ last'.ret = NoFrame
       /\ mapcounts' = mapcounts
       /\ Len(procs') = Len(procs)
       /\ \A p \in Procs, vpn \in VPNs :
            HasPte(p, vpn) =>
              /\ procs'[p].outer_ptes[pd_index(vpn)].ptr = "DIR"
              /\ PteIn(procs', p, vpn) = Pte(p, vpn)]_vars

\* C11 happens: alloc_page came back with -1 while the current process has
\* pages mapped.
C11_Witness ==
  /\ last.op = "alloc" /\ last.ret = NoFrame /\ ~crashed
  /\ \A f \in Frames : mapcounts[f] # 0
  /\ \E vpn \in VPNs : IsValid(current, vpn)

\* C12: a write fault of the current process on a valid, non-writable, private
\* PTE whose frame has reference count >= 2, when no frame is free, returns
\* failure and leaves the PTE, every other PTE and every reference count as
\* they were.
C12_CowExhaustion ==
  [][\A vpn \in VPNs :
       (/\ WriteFault(vpn)
        /\ IsValid(current, vpn)
        /\ ~Pte(current, vpn).writable
        /\ Pte(current, vpn).private # 0
        /\ AtLeast2(mapcounts[Pte(current, vpn).pfn])
        /\ FreeFrames = {})
       => ~last'.ok /\ procs' = procs /\ mapcounts' = mapcounts]_vars

\* C12 happens: the write fault on a shared private page failed for want of
\* a frame.
C12_Witness ==
  /\ last.op = "fault" /\ last.rw = RW_WRITE /\ ~last.ok /\ ~crashed
  /\ heap = "zero"
  /\ FreeFrames = {}
  /\ IsValid(current, last.arg)
  /\ IsCow(Pte(current, last.arg))
  /\ AtLeast2(mapcounts[Pte(current, last.arg).pfn])

\* C13: in every reachable state, every PTE of every process that has
\* writable = true has private = false.
C13_WritableExcludesPrivate ==
  \A p \in Procs, vpn \in VPNs :
    (HasPte(p, vpn) /\ Pte(p, vpn).writable) => Pte(p, vpn).private = 0

\* C14: free_page changes only the freed PTE of the current process and the
\* reference count of the frame it mapped (one less); every other PTE of the
\* current process, every PTE of every other process and every other count
\* stay as they were, also when other processes map the same frame.
C14_FreeTouchesOnlyCaller ==
  [][(last'.op = "free" /\ ~crashed') =>
       LET vpn == last'.arg
           old == Pte(current, vpn)
       IN /\ Len(procs') = Len(procs)
          /\ \A p \in Procs : p # current => procs'[p] = procs[p]
          /\ procs'[current].pid = procs[current].pid
          /\ \A i \in Idx :
               procs'[current].outer_ptes[i].ptr = procs[current].outer_ptes[i].ptr
          /\ \A v \in VPNs : v # vpn => PteIn(procs', current, v) = Pte(current, v)
          /\ ~ValidIn(procs', current, vpn)
          /\ \A f \in Frames : f # old.pfn => mapcounts'[f] = mapcounts[f]
          /\ mapcounts'[old.pfn] = mapcounts[old.pfn] - 1]_vars

\* C14 happens: the current process freed a page that another process still
\* maps, on the frame the freed entry pointed at.
C14_Witness ==
  /\ last.op = "free" /\ ~crashed /\ heap = "zero"
  /\ ~IsValid(current, last.arg)
  /\ \E p \in Live \ {current} :
       /\ IsValid(p, last.arg)
       /\ Pte(current, last.arg).private # 0
       /\ mapcounts[Pte(p, last.arg).pfn] = 1

\* ------------------------------------------------------ the example scenario
\* A pid that names no process of the initial state (the scenario's 99).
NewPid == MaxPid

\* The driver of the worked example: alloc_page(0, RW), then switch_process
\* to a pid that does not exist, then a write fault on page 0; after the
\* script the calls are free again.
ExampleNext ==
  \/ steps = 0 /\ Step(alloc_page(0, RW_READWRITE))
  \/ steps = 1 /\ Step(switch_process(NewPid))
  \/ steps = 2 /\ Step(handle_page_fault(0, RW_WRITE))
  \/ steps >= 3 /\ Next

SpecExample == Init /\ [][ExampleNext]_vars

\* C15: from all frames free and one process with an empty page table,
\* alloc_page(0, RW) returns frame 0 and mapcounts[0] = 1; switch_process to
\* a new pid then forks a process whose page 0 maps frame 0, page 0 of both
\* processes is non-writable and private and mapcounts[0] = 2; the write fault
\* on page 0 in the new process then succeeds and leaves mapcounts[0] = 1,
\* mapcounts[1] = 1 and the new process's page 0 on frame 1, writable.
\* (The directory alloc_page mallocs has a second entry that nobody writes;
\* the fork loop reads it.)
C15_ExampleScenario ==
  /\ steps = 1 =>
       /\ last.op = "alloc" /\ last.ret = 0 /\ ~crashed
       /\ mapcounts[0] = 1
  /\ steps = 2 =>
       /\ last.op = "switch" /\ ~last.ok /\ ~crashed
       /\ Len(procs) = 2 /\ current = 2
       /\ procs[2].pid = NewPid
       /\ \A p \in {1, 2} :
            /\ IsValid(p, 0)
            /\ Pte(p, 0).pfn = 0
            /\ ~Pte(p, 0).writable
            /\ Pte(p, 0).private # 0
       /\ mapcounts[0] = 2
  /\ steps = 3 =>
       /\ last.op = "fault" /\ last.ok /\ ~crashed
       /\ current = 2
       /\ mapcounts[0] = 1
       /\ mapcounts[1] = 1
       /\ IsValid(2, 0)
       /\ Pte(2, 0).pfn = 1
       /\ Pte(2, 0).writable

\* ------------------------------------------ longer runs on a zeroed heap
\* Runs one call longer than MaxSteps, with malloc handing out zeroed
\* memory throughout.
DeepSteps == MaxSteps + 1

InitZero == Init /\ heap = "zero"

DeepStep(A) ==
  /\ steps < DeepSteps /\ steps' = steps + 1 /\ heap' = heap /\ notraw' = notraw /\ A
  /\ readonly' = IF crashed' THEN readonly ELSE ReadOnlyAfter(last', Len(procs'))
  /\ shared' = IF crashed' THEN {} ELSE SharedAfter(last', procs', mapcounts')

DeepNext ==
  \/ \E vpn \in TestVPNs, rw \in {RW_READ, RW_READWRITE} : DeepStep(alloc_page(vpn, rw))
  \/ \E vpn \in TestVPNs : CanFree(vpn) /\ DeepStep(free_page(vpn))
  \/ \E in \in FaultInputs : DeepStep(handle_page_fault(in[1], in[2]))
  \/ \E pid \in Pids : DeepStep(switch_process(pid))

SpecDeep == InitZero /\ [][DeepNext]_vars

\* C16: under any sequence of calls, page faults on invalid pages included,
\* a valid writable PTE is the only valid mapping of its frame: no other
\* valid PTE of any process points at the same frame.
C16_WriteIsolation ==
  \A p \in Procs, vpn \in VPNs :
    (IsValid(p, vpn) /\ Pte(p, vpn).writable) =>
      \A q \in Procs, w \in VPNs :
        (<<q, w>> # <<p, vpn>> /\ IsValid(q, w)) => Pte(q, w).pfn # Pte(p, vpn).pfn

\* C17: a write-mode handle_page_fault on a page whose inner directory was
\* never created returns failure and changes nothing; it does not end in an
\* error state by reading through the missing directory.
C17_FaultWithoutDirectory ==
  [][\A vpn \in VPNs :
       (/\ heap = "zero"
        /\ ~crashed
        /\ last'.op = "fault" /\ last'.arg = vpn /\ last'.rw = RW_WRITE
        /\ Dir(current, vpn).ptr = "NULL")
       => /\ ~crashed'
          /\ ~last'.ok
          /\ procs' = procs
          /\ mapcounts' = mapcounts]_vars

\* C18: no two processes among the current process and the ready list have
\* the same pid; in particular switch_process(pid of the current process)
\* creates no second process with that pid.
C18_UniquePids ==
  \A p \in Live, q \in Live : p # q => procs[p].pid # procs[q].pid

\* C19: a page mapped by alloc_page in read-only mode stays valid,
\* non-writable and non-private, on the same frame, in the process that
\* allocated it and in every process forked from it, across every
\* switch_process and handle_page_fault call, until that process frees or
\* re-allocates the page; every write fault on it returns failure and leaves
\* every reference count as it was.
C19_ReadOnlyStaysReadOnly ==
  [][/\ \A pv \in readonly' :
          /\ ValidIn(procs', pv[1], pv[2])
          /\ ~PteIn(procs', pv[1], pv[2]).writable
          /\ PteIn(procs', pv[1], pv[2]).private = 0
          /\ (pv \in readonly /\ last'.op \in {"switch", "fault"}) =>
               PteIn(procs', pv[1], pv[2]) = Pte(pv[1], pv[2])
     /\ \A vpn \in VPNs :
          (WriteFault(vpn) /\ <<current, vpn>> \in readonly) =>
             ~last'.ok /\ mapcounts' = mapcounts /\ procs' = procs]_vars

\* C19 happens: a forked process took a write fault on a page its parent had
\* allocated read-only, after the parent's writable pages were shared too.
C19_Witness ==
  /\ last.op = "fault" /\ last.rw = RW_WRITE /\ ~last.ok /\ ~crashed
  /\ heap = "zero"
  /\ current # 1
  /\ <<current, last.arg>> \in readonly
  /\ <<1, last.arg>> \in readonly
  /\ mapcounts[Pte(current, last.arg).pfn] = 2
  /\ \E v \in VPNs : IsValid(current, v) /\ IsCow(Pte(current, v))

\* C20: after a fork has shared a page that was writable in the parent
\* between exactly two processes, if the two then each take a write fault on
\* it, in either order and with switches in between, and a frame is free at
\* the first fault, then the first faulter is moved to a new frame, the
\* second is promoted in place on the original frame with no allocation, and
\* the two end on distinct frames, each with reference count 1, each
\* writable and non-private.
C20_CowDisjointFrames ==
  [][\A r \in shared :
       (/\ WriteFault(r.vpn)
        /\ current \in {r.a, r.b})
       => LET new == PteIn(procs', current, r.vpn)
              pa == PteIn(procs', r.a, r.vpn)
              pb == PteIn(procs', r.b, r.vpn)
          IN /\ (r.phase = 0 /\ FreeFrames # {}) =>
                  /\ last'.ok
                  /\ new = [valid |-> TRUE, writable |-> TRUE,
                            pfn |-> LowestFree, private |-> 0]
                  /\ new.pfn # r.pfn
                  /\ mapcounts'[new.pfn] = 1
                  /\ mapcounts'[r.pfn] = 1
             /\ (r.phase = 1 /\ current # r.first) =>
                  /\ last'.ok
                  /\ mapcounts' = mapcounts
                  /\ new = [valid |-> TRUE, writable |-> TRUE,
                            pfn |-> r.pfn, private |-> 0]
                  /\ pa.valid /\ pb.valid
                  /\ pa.writable /\ pb.writable
                  /\ pa.private = 0 /\ pb.private = 0
                  /\ pa.pfn # pb.pfn
                  /\ mapcounts'[pa.pfn] = 1
                  /\ mapcounts'[pb.pfn] = 1]_vars

\* C20 happens: both processes have taken their write fault on the shared
\* page, the second one just now.
C20_Witness ==
  /\ last.op = "fault" /\ last.rw = RW_WRITE /\ last.ok /\ ~crashed
  /\ heap = "zero"
  /\ \E r \in shared :
       /\ r.phase = 2
       /\ r.vpn = last.arg
       /\ current \in {r.a, r.b} \ {r.first}
       /\ Pte(r.a, r.vpn).pfn # Pte(r.b, r.vpn).pfn

====
